---- MODULE Spec2Model ----
(***************************************************************************)
(* RemoteClient.safe_exec_cmd (src/scp_client.py) run against one SSH      *)
(* session channel.  The client thread executes the statements of          *)
(* safe_exec_cmd one channel operation at a time; the transport thread of  *)
(* the SSH library delivers the server's messages for the channel (data,   *)
(* extended data, exit-status, EOF, CLOSE) in the order the server sent    *)
(* them, interleaved arbitrarily with the client's steps.                  *)
(***************************************************************************)
EXTENDS Integers, Sequences, FiniteSets, TLC

\* ---------------------------------------------------------------- bounds
\* longest output script (stdout and stderr bytes together) of the command
MaxScript == 2
\* channel window: bytes the server may have delivered and the client not read
Window == 1
\* bytes the process may have written that the server has not sent yet when
\* the process exits (what sits in the server-side pipes)
PipeCap == 1

\* ---------------------------------------------------- program constants
\* Channel.exit_status before any exit-status message arrived
NoExitStatus == -1

\* ------------------------------------------------------------ alphabets
\* an ASCII byte, a UTF-8 two-byte lead (0xC3) and a continuation (0xA9)
StdoutBytes == {97, 195, 169}
\* '!'
StderrBytes == {33}
ExitCodes == {0, 2}

\* commands of one execute_commands call
MaxCommands == 3

\* texts safe_exec_cmd returns (decoded stdout)
Texts == {<<>>, <<97>>, <<233>>}

\* exceptions that leave safe_exec_cmd
ExecErrors == {"SSHException", "OSError", "UnicodeDecodeError"}

\* what safe_exec_cmd does for one command: it returns (stdout, exit_code), or
\* raises
Outcomes ==
  [raises : {""}, stdout : Texts, exit_code : ExitCodes \cup {NoExitStatus}]
    \cup [raises : ExecErrors, stdout : {<<>>}, exit_code : {NoExitStatus}]

CommandLists == UNION {[1..n -> Outcomes] : n \in 0..MaxCommands}

\* video files of the folder, and the number of frames each load samples
Files == {"a_1_0_9.mp4", "b_2_0_9.mp4"}
Frames(f) == IF f = "a_1_0_9.mp4" THEN 1 ELSE 2

\* texts of the annotation inputs other than file_name, taken together: ""
\* when one of them is empty
Notes == {"", "x", "y"}

\* rows of the ledger
Rows == [file_name : Files, note : Notes \ {""}]

\* rows the ledger holds at most
MaxRows == 2

\* load_video_into_buffer threads
MaxLoads == 2

\* positions of the slider before the first load (tk's default range 0..100,
\* cut to the positions that matter)
DefaultSliderRange == 3

Ledgers == UNION {[1..n -> Rows] : n \in 0..MaxRows}

\* attributes a RemoteClient object has after __init__
Attrs(with_config) ==
  {"hostname", "hostport", "username", "password", "ssh_key_filepath",
   "client", "logger"} \cup (IF with_config THEN {"ssh_config"} ELSE {})

Items ==
  [stream : {"out"}, byte : StdoutBytes] \cup [stream : {"err"}, byte : StderrBytes]

Scripts == UNION {[1..n -> Items] : n \in 0..MaxScript}

VARIABLES
  \* remote side
  script,            \* bytes written (or still to be written) and not yet delivered
  proc_code,         \* the exit code of the process; NoExitStatus when it dies
                     \* of a signal (the server then sends no exit-status)
  srv_eof,           \* the server has sent EOF for the channel
  session_active,    \* the SSH session can open channels
  \* paramiko Channel
  in_buffer, in_stderr_buffer, in_closed,
  eof_received, eof_sent, closed, status_event, exit_status,
  \* safe_exec_cmd (nbytes: the evaluated len(...) argument of the pending
  \* recv, 0 when none is pending)
  pc, nbytes, stdout_chunks, got_chunk, exit_code, result, error,
  \* history
  stdout_written, stderr_written, stderr_read,
  out_at_status, err_at_status, unread_at_status, begin_status, begin_closed,
  loops, timed_out,
  \* observations of the loop
  calls,             \* channel teardown operations the call has performed
  idle,              \* consecutive iterations that obtained no data (2: two or more)
  err_at_wait,       \* stderr bytes buffered when the iteration's select ran
  err_read_iter,     \* stderr bytes the iteration has read
  \* the RemoteClient object and its callers (connect, execute_commands,
  \* disconnect)
  has_ssh_config,    \* ssh_config_filepath was given to __init__
  reachable,         \* the host accepts the connection
  client,            \* self.client: "None", "unconnected", "connected", "closed"
  commands,          \* per command, what safe_exec_cmd does for it
  cmd_i,             \* position of the for loop of execute_commands
  in_flight,         \* commands whose channel is open and whose call is pending
  dispatched,        \* commands in the order their channels were opened
  printed,           \* texts written by print(), in order
  returned,          \* what the last method returned
  sess_error,        \* exception that left the last method
  sess_pc,
  \* the annotation GUI (ClipAnnotationGUI): absent values (None) are <<>>,
  \* present ones <<v>>
  annotation_file,   \* self.annotation_file: the ledger in memory
  csv_file,          \* rows of the CSV file on disk
  annos,             \* self.annos: rows of the selected video, as last looked up
  anno_idx,          \* self.anno_idx
  current_anno,      \* self.current_anno
  video_path,        \* text of -VIDEO_PATH-
  submitted,         \* per file_name, the last successful Submit
  gui_pc,            \* "idle" (in window.read), "populate", "slider_idx", "crashed"
  gui_error,
  values_path,       \* self.values["-VIDEO_PATH-"]: the text at the last event
  \* the video buffer and the loading threads
  video_cap,         \* self.video_cap is not None
  video_buffer,      \* self.video_buffer
  video_buffer_idx,  \* self.video_buffer_idx
  slider_disabled,
  load_disabled,
  slider_range,      \* number of positions of the slider
  t_pc,              \* position of each load_video_into_buffer thread
  t_vr,              \* the decord reader of each thread (its file)
  frame_idx,         \* position of the slider read by the handler
  frame_shown,       \* the buffer the handler took the frame from
  value_shown        \* the index list the handler took the frame number from

remote == <<script, proc_code, srv_eof, session_active>>
chan == <<in_buffer, in_stderr_buffer, in_closed, eof_received, eof_sent,
          closed, status_event, exit_status>>
locals == <<nbytes, stdout_chunks, got_chunk, exit_code, result, error>>
hist == <<stdout_written, stderr_written, stderr_read, out_at_status,
          err_at_status, unread_at_status, begin_status, begin_closed, loops,
          timed_out>>
obs == <<calls, idle, err_at_wait, err_read_iter>>
sess == <<has_ssh_config, reachable, client, commands, cmd_i, in_flight,
          dispatched, printed, returned, sess_error, sess_pc>>
exec == <<remote, chan, pc, locals, hist, obs>>
anno == <<annotation_file, csv_file, annos, anno_idx, current_anno,
          video_path, submitted>>
video == <<video_cap, video_buffer, video_buffer_idx, slider_disabled,
           load_disabled, slider_range, t_pc, t_vr, frame_idx, frame_shown,
           value_shown>>
gui == <<anno, gui_pc, gui_error, values_path, video>>
vars == <<exec, sess, gui>>

\* ------------------------------------------------------------- helpers
Min(a, b) == IF a < b THEN a ELSE b

RECURSIVE Flatten(_)
\* b"".join(chunks)
Flatten(chunks) ==
  IF chunks = <<>> THEN <<>> ELSE Head(chunks) \o Flatten(Tail(chunks))

RECURSIVE StreamBytes(_, _)
\* the bytes of one stream in a script, in order
StreamBytes(s, stream) ==
  IF s = <<>> THEN <<>>
  ELSE (IF Head(s).stream = stream THEN <<Head(s).byte>> ELSE <<>>)
         \o StreamBytes(Tail(s), stream)

\* ------------------------------------------------------- UTF-8 decoding
IsAscii(b) == b < 128
IsCont(b) == b >= 128 /\ b <= 191
IsLead2(b) == b >= 194 /\ b <= 223

RECURSIVE Utf8Valid(_)
\* bytes.decode("utf8") succeeds (strict error handling)
Utf8Valid(s) ==
  IF s = <<>> THEN TRUE
  ELSE IF IsAscii(Head(s)) THEN Utf8Valid(Tail(s))
  ELSE IF IsLead2(Head(s)) /\ Len(s) >= 2 /\ IsCont(s[2])
       THEN Utf8Valid(SubSeq(s, 3, Len(s)))
  ELSE FALSE

RECURSIVE Utf8Decode(_)
\* the code points bytes.decode("utf8") yields for a valid sequence
Utf8Decode(s) ==
  IF s = <<>> THEN <<>>
  ELSE IF IsAscii(Head(s)) THEN <<Head(s)>> \o Utf8Decode(Tail(s))
  ELSE <<(Head(s) - 192) * 64 + (s[2] - 128)>> \o Utf8Decode(SubSeq(s, 3, Len(s)))

RECURSIVE DecodeChunks(_)
\* "".join([chunk.decode("utf8") for chunk in stdout_chunks])
DecodeChunks(chunks) ==
  IF chunks = <<>> THEN <<>>
  ELSE Utf8Decode(Head(chunks)) \o DecodeChunks(Tail(chunks))

RECURSIVE FirstBadChunk(_)
\* the chunk whose decode raises first (the comprehension decodes in order)
FirstBadChunk(chunks) ==
  IF ~Utf8Valid(Head(chunks)) THEN Head(chunks) ELSE FirstBadChunk(Tail(chunks))

AllChunksValid(chunks) == \A i \in 1..Len(chunks) : Utf8Valid(chunks[i])

\* ------------------------------------------------ paramiko Channel queries
\* Channel.recv_ready()
RecvReady == in_buffer # <<>>

\* Channel.recv_stderr_ready()
RecvStderrReady == in_stderr_buffer # <<>>

\* Channel.exit_status_ready(): self.closed or self.status_event.is_set()
ExitStatusReady == closed \/ status_event

\* readability of Channel.fileno(): the pipe is set while either buffer holds
\* bytes, and for ever once the buffers are closed (EOF or CLOSE)
PipeSet == in_buffer # <<>> \/ in_stderr_buffer # <<>> \/ in_closed

\* BufferedPipe.read(n) once it does not block: at most n bytes off the front
PipeRead(buf, n) == SubSeq(buf, 1, Min(n, Len(buf)))

PipeRest(buf, n) == SubSeq(buf, Min(n, Len(buf)) + 1, Len(buf))

\* the process dies of a signal
Signalled == proc_code = NoExitStatus

\* the command was dispatched on a channel of a live session
Dispatched == session_active /\ pc # "exec_command"

OutDelivered == Len(stdout_written) - Len(StreamBytes(script, "out"))

ErrDelivered == Len(stderr_written) - Len(StreamBytes(script, "err"))

\* ------------------------------------------------------------------ Init
\* a call of safe_exec_cmd that has not started
ExecNew ==
  /\ srv_eof = FALSE
  /\ in_buffer = <<>> /\ in_stderr_buffer = <<>> /\ in_closed = FALSE
  /\ eof_received = FALSE /\ eof_sent = FALSE /\ closed = FALSE
  /\ status_event = FALSE /\ exit_status = NoExitStatus
  /\ pc = "exec_command"
  /\ nbytes = 0 /\ stdout_chunks = <<>> /\ got_chunk = FALSE
  /\ exit_code = NoExitStatus /\ result = <<>> /\ error = <<>>
  /\ stdout_written = StreamBytes(script, "out")
  /\ stderr_written = StreamBytes(script, "err")
  /\ stderr_read = 0
  /\ out_at_status = -1 /\ err_at_status = -1 /\ unread_at_status = FALSE
  /\ begin_status = FALSE /\ begin_closed = FALSE
  /\ loops = 0 /\ timed_out = FALSE
  /\ calls = {} /\ idle = 0 /\ err_at_wait = 0 /\ err_read_iter = 0

\* a RemoteClient as __init__ leaves it, no method called yet
SessNew ==
  /\ client = "None"
  /\ cmd_i = 0 /\ in_flight = {} /\ dispatched = <<>> /\ printed = <<>>
  /\ returned = <<>> /\ sess_error = <<>>
  /\ sess_pc = "new"

\* a ClipAnnotationGUI as __init__ leaves it
GuiNew ==
  /\ annotation_file = <<>> /\ annos = <<>> /\ anno_idx = 0
  /\ current_anno = <<>>
  /\ video_path = ""
  /\ submitted = [f \in Files |-> <<>>]
  /\ gui_pc = "idle" /\ gui_error = "" /\ values_path = ""
  /\ video_cap = FALSE /\ video_buffer = <<>> /\ video_buffer_idx = <<>>
  /\ slider_disabled = FALSE /\ load_disabled = FALSE
  /\ slider_range = DefaultSliderRange
  /\ t_pc = [t \in 1..MaxLoads |-> "none"]
  /\ t_vr = [t \in 1..MaxLoads |-> ""]
  /\ frame_idx = 0 /\ frame_shown = <<>> /\ value_shown = <<>>

\* one call of safe_exec_cmd, for every command script, exit code and state of
\* the session
Init ==
  /\ script \in Scripts
  /\ proc_code \in ExitCodes \cup {NoExitStatus}
  /\ session_active \in BOOLEAN
  /\ ExecNew
  /\ has_ssh_config = TRUE /\ reachable = TRUE /\ commands = <<>>
  /\ SessNew
  /\ csv_file = <<>>
  /\ GuiNew

\* one RemoteClient and its caller, for every list of commands
InitSession ==
  /\ script = <<>> /\ proc_code = 0 /\ session_active = TRUE
  /\ ExecNew
  /\ has_ssh_config \in BOOLEAN
  /\ reachable \in BOOLEAN
  /\ commands \in CommandLists
  /\ SessNew
  /\ csv_file = <<>>
  /\ GuiNew

\* the annotation GUI, for every content of the CSV file
InitAnno ==
  /\ script = <<>> /\ proc_code = 0 /\ session_active = TRUE
  /\ ExecNew
  /\ has_ssh_config = TRUE /\ reachable = TRUE /\ commands = <<>>
  /\ SessNew
  /\ csv_file \in Ledgers
  /\ GuiNew

\* the GUI with the videos of a folder listed and no annotation file opened
InitVideo ==
  /\ script = <<>> /\ proc_code = 0 /\ session_active = TRUE
  /\ ExecNew
  /\ has_ssh_config = TRUE /\ reachable = TRUE /\ commands = <<>>
  /\ SessNew
  /\ csv_file = <<>>
  /\ GuiNew

\* ------------------------------------------------- the transport thread
\* the server sends the next byte of the process's output; the transport
\* feeds it to the stdout or the stderr buffer (window permitting)
Deliver ==
  /\ Dispatched /\ ~closed
  /\ script # <<>>
  /\ Len(in_buffer) + Len(in_stderr_buffer) < Window
  /\ IF Head(script).stream = "out"
       THEN /\ in_buffer' = Append(in_buffer, Head(script).byte)
            /\ UNCHANGED in_stderr_buffer
       ELSE /\ in_stderr_buffer' = Append(in_stderr_buffer, Head(script).byte)
            /\ UNCHANGED in_buffer
  /\ script' = Tail(script)
  /\ UNCHANGED <<proc_code, srv_eof, session_active, in_closed,
                 eof_received, eof_sent, closed, status_event, exit_status,
                 pc, locals, hist>>
  /\ UNCHANGED obs
  /\ UNCHANGED <<sess, gui>>

\* the process has exited (all it wrote is in the server's pipes): the server
\* sends exit-status at once; the bytes still in its pipes follow later
ExitStatus ==
  /\ Dispatched /\ ~closed
  /\ ~Signalled /\ ~status_event
  /\ Len(script) <= PipeCap
  /\ exit_status' = proc_code
  /\ status_event' = TRUE
  /\ out_at_status' = OutDelivered
  /\ err_at_status' = ErrDelivered
  /\ unread_at_status' = (RecvReady \/ RecvStderrReady)
  /\ UNCHANGED <<remote, in_buffer, in_stderr_buffer, in_closed, eof_received,
                 eof_sent, closed, pc, locals, stdout_written, stderr_written,
                 stderr_read, begin_status, begin_closed, loops, timed_out>>
  /\ UNCHANGED obs
  /\ UNCHANGED <<sess, gui>>

\* Channel._handle_eof: the server has sent all output
ServerEof ==
  /\ Dispatched /\ ~closed
  /\ ~srv_eof /\ script = <<>>
  /\ srv_eof' = TRUE
  /\ IF ~eof_received
       THEN eof_received' = TRUE /\ in_closed' = TRUE
       ELSE UNCHANGED <<eof_received, in_closed>>
  /\ UNCHANGED <<script, proc_code, session_active, in_buffer,
                 in_stderr_buffer, eof_sent, closed, status_event, exit_status,
                 pc, locals, hist>>
  /\ UNCHANGED obs
  /\ UNCHANGED <<sess, gui>>

\* Channel._handle_close / _set_closed: the server closes the channel
ServerClose ==
  /\ Dispatched /\ ~closed
  /\ srv_eof /\ (status_event \/ Signalled)
  /\ closed' = TRUE /\ in_closed' = TRUE /\ status_event' = TRUE
  /\ out_at_status' = IF status_event THEN out_at_status ELSE OutDelivered
  /\ err_at_status' = IF status_event THEN err_at_status ELSE ErrDelivered
  /\ unread_at_status' = IF status_event THEN unread_at_status
                         ELSE (RecvReady \/ RecvStderrReady)
  /\ UNCHANGED <<remote, in_buffer, in_stderr_buffer, eof_received, eof_sent,
                 exit_status, pc, locals, stdout_written, stderr_written,
                 stderr_read, begin_status, begin_closed, loops, timed_out>>
  /\ UNCHANGED obs
  /\ UNCHANGED <<sess, gui>>

\* --------------------------------------------------------- safe_exec_cmd
\* exec_command that hands out a channel of a dead session instead of raising
ExecCommand_NoSessionCheck ==
  /\ pc = "exec_command"
  /\ pc' = "stdin_close"
  /\ UNCHANGED <<remote, chan, locals, hist>>
  /\ UNCHANGED obs
  /\ UNCHANGED <<sess, gui>>

\* self.client.exec_command(command)
ExecCommand ==
  /\ pc = "exec_command"
  /\ IF session_active
       THEN pc' = "stdin_close" /\ UNCHANGED error
       ELSE /\ pc' = "raised"
            /\ error' = <<[type |-> "SSHException", object |-> <<>>]>>
  /\ UNCHANGED <<remote, chan, nbytes, stdout_chunks, got_chunk,
                 exit_code, result, hist>>
  /\ UNCHANGED obs
  /\ UNCHANGED <<sess, gui>>

\* a call that leaves the write direction open
StdinClose_WriteLeftOpen ==
  /\ pc = "stdin_close"
  /\ begin_status' = (exit_status # NoExitStatus)
  /\ begin_closed' = closed
  /\ pc' = "drain_len"
  /\ UNCHANGED <<remote, chan, locals, stdout_written,
                 stderr_written, stderr_read, out_at_status, err_at_status,
                 unread_at_status, loops, timed_out>>
  /\ UNCHANGED obs
  /\ UNCHANGED <<sess, gui>>

\* stdin.close(); channel.shutdown_write()
StdinClose ==
  /\ pc = "stdin_close"
  /\ eof_sent' = TRUE
  /\ begin_status' = (exit_status # NoExitStatus)
  /\ begin_closed' = closed
  /\ pc' = "drain_len"
  /\ UNCHANGED <<remote, in_buffer, in_stderr_buffer, in_closed, eof_received,
                 closed, status_event, exit_status, locals, stdout_written,
                 stderr_written, stderr_read, out_at_status, err_at_status,
                 unread_at_status, loops, timed_out>>
  /\ UNCHANGED obs
  /\ UNCHANGED <<sess, gui>>

\* len(stdout.channel.in_buffer), the argument of the first recv
DrainLen ==
  /\ pc = "drain_len"
  /\ nbytes' = Len(in_buffer)
  /\ pc' = "drain_recv"
  /\ UNCHANGED <<remote, chan, stdout_chunks, got_chunk, exit_code,
                 result, error, hist>>
  /\ UNCHANGED obs
  /\ UNCHANGED <<sess, gui>>

\* stdout_chunks.append(stdout.channel.recv(n)): the read blocks while the
\* buffer is empty and not closed
DrainRecv ==
  /\ pc = "drain_recv"
  /\ in_buffer # <<>> \/ in_closed
  /\ stdout_chunks' = Append(stdout_chunks, PipeRead(in_buffer, nbytes))
  /\ in_buffer' = PipeRest(in_buffer, nbytes)
  /\ nbytes' = 0
  /\ pc' = "while_closed"
  /\ UNCHANGED <<remote, in_stderr_buffer, in_closed, eof_received, eof_sent,
                 closed, status_event, exit_status, got_chunk,
                 exit_code, result, error, hist>>
  /\ UNCHANGED obs
  /\ UNCHANGED <<sess, gui>>

\* while not channel.closed ...
WhileClosed ==
  /\ pc = "while_closed"
  /\ pc' = IF ~closed THEN "select" ELSE "while_recv_ready"
  /\ UNCHANGED <<remote, chan, locals, hist>>
  /\ UNCHANGED obs
  /\ UNCHANGED <<sess, gui>>

\* ... or channel.recv_ready() ...
WhileRecvReady ==
  /\ pc = "while_recv_ready"
  /\ pc' = IF RecvReady THEN "select" ELSE "while_stderr_ready"
  /\ UNCHANGED <<remote, chan, locals, hist>>
  /\ UNCHANGED obs
  /\ UNCHANGED <<sess, gui>>

\* ... or channel.recv_stderr_ready():
WhileStderrReady ==
  /\ pc = "while_stderr_ready"
  /\ pc' = IF RecvStderrReady THEN "select" ELSE "recv_exit_status"
  /\ UNCHANGED <<remote, chan, locals, hist>>
  /\ UNCHANGED obs
  /\ UNCHANGED <<sess, gui>>

\* select.select([], [], [], STDOUT_TIMEOUT): nothing to wait on, so every
\* iteration sleeps for the whole timeout and finds readq empty
Select_EmptyReadList ==
  /\ pc = "select"
  /\ got_chunk' = FALSE
  /\ loops' = Min(loops + 1, 2)
  /\ timed_out' = TRUE
  /\ pc' = "term_exit_status"
  /\ UNCHANGED <<remote, chan, nbytes, stdout_chunks, exit_code, result, error,
                 stdout_written, stderr_written, stderr_read, out_at_status,
                 err_at_status, unread_at_status, begin_status, begin_closed>>
  /\ err_at_wait' = Len(in_stderr_buffer)
  /\ err_read_iter' = 0
  /\ UNCHANGED <<calls, idle>>
  /\ UNCHANGED <<sess, gui>>

\* the failing wait of a variant that tears the channel down before it lets the
\* exception go
SelectFails_Cleanup ==
  /\ pc = "select"
  /\ error' = <<[type |-> "OSError", object |-> <<>>]>>
  /\ pc' = "raised"
  /\ eof_received' = TRUE
  /\ closed' = TRUE /\ in_closed' = TRUE /\ status_event' = TRUE
  /\ calls' = calls \cup {"shutdown_read", "close"}
  /\ UNCHANGED <<remote, in_buffer, in_stderr_buffer, eof_sent, exit_status,
                 nbytes, stdout_chunks, got_chunk, exit_code, result, hist,
                 idle, err_at_wait, err_read_iter>>
  /\ UNCHANGED <<sess, gui>>

\* a wait that watches the stdout buffer only
Select_StdoutOnly ==
  /\ pc = "select"
  /\ got_chunk' = FALSE
  /\ loops' = Min(loops + 1, 2)
  /\ timed_out' = (timed_out \/ ~(in_buffer # <<>> \/ in_closed))
  /\ pc' = IF in_buffer # <<>> \/ in_closed
             THEN "for_recv_ready" ELSE "term_exit_status"
  /\ UNCHANGED <<remote, chan, nbytes, stdout_chunks, exit_code, result, error,
                 stdout_written, stderr_written, stderr_read, out_at_status,
                 err_at_status, unread_at_status, begin_status, begin_closed>>
  /\ err_at_wait' = Len(in_stderr_buffer)
  /\ err_read_iter' = 0
  /\ UNCHANGED <<calls, idle>>
  /\ UNCHANGED <<sess, gui>>

\* readq, _, _ = select.select([stdout.channel], [], [], STDOUT_TIMEOUT) when
\* the call itself fails (ValueError for a descriptor select cannot take,
\* OSError from the system call): nothing catches it, the exception leaves
\* safe_exec_cmd from this line
SelectFails ==
  /\ pc = "select"
  /\ error' = <<[type |-> "OSError", object |-> <<>>]>>
  /\ pc' = "raised"
  /\ UNCHANGED <<remote, chan, nbytes, stdout_chunks, got_chunk, exit_code,
                 result, hist>>
  /\ UNCHANGED obs
  /\ UNCHANGED <<sess, gui>>

\* got_chunk = False; readq, _, _ = select.select([stdout.channel], [], [], STDOUT_TIMEOUT)
Select ==
  /\ pc = "select"
  /\ got_chunk' = FALSE
  /\ loops' = Min(loops + 1, 2)
  /\ timed_out' = (timed_out \/ ~PipeSet)
  /\ pc' = IF PipeSet THEN "for_recv_ready" ELSE "term_exit_status"
  /\ UNCHANGED <<remote, chan, nbytes, stdout_chunks, exit_code, result, error,
                 stdout_written, stderr_written, stderr_read, out_at_status,
                 err_at_status, unread_at_status, begin_status, begin_closed>>
  /\ err_at_wait' = Len(in_stderr_buffer)
  /\ err_read_iter' = 0
  /\ UNCHANGED <<calls, idle>>
  /\ UNCHANGED <<sess, gui>>

\* if c.recv_ready():
ForRecvReady ==
  /\ pc = "for_recv_ready"
  /\ pc' = IF RecvReady THEN "for_len" ELSE "for_stderr_ready"
  /\ UNCHANGED <<remote, chan, locals, hist>>
  /\ UNCHANGED obs
  /\ UNCHANGED <<sess, gui>>

\* len(c.in_buffer)
ForLen ==
  /\ pc = "for_len"
  /\ nbytes' = Len(in_buffer)
  /\ pc' = "for_recv"
  /\ UNCHANGED <<remote, chan, stdout_chunks, got_chunk, exit_code,
                 result, error, hist>>
  /\ UNCHANGED obs
  /\ UNCHANGED <<sess, gui>>

\* stdout_chunks.append(stdout.channel.recv(n)); got_chunk = True
ForRecv ==
  /\ pc = "for_recv"
  /\ in_buffer # <<>> \/ in_closed
  /\ stdout_chunks' = Append(stdout_chunks, PipeRead(in_buffer, nbytes))
  /\ in_buffer' = PipeRest(in_buffer, nbytes)
  /\ nbytes' = 0
  /\ got_chunk' = TRUE
  /\ pc' = "for_stderr_ready"
  /\ UNCHANGED <<remote, in_stderr_buffer, in_closed, eof_received, eof_sent,
                 closed, status_event, exit_status, exit_code,
                 result, error, hist>>
  /\ UNCHANGED obs
  /\ UNCHANGED <<sess, gui>>

\* if c.recv_stderr_ready():
ForStderrReady ==
  /\ pc = "for_stderr_ready"
  /\ pc' = IF RecvStderrReady THEN "for_stderr_len" ELSE "term_exit_status"
  /\ UNCHANGED <<remote, chan, locals, hist>>
  /\ UNCHANGED obs
  /\ UNCHANGED <<sess, gui>>

\* len(c.in_stderr_buffer)
ForStderrLen ==
  /\ pc = "for_stderr_len"
  /\ nbytes' = Len(in_stderr_buffer)
  /\ pc' = "for_stderr_recv"
  /\ UNCHANGED <<remote, chan, stdout_chunks, got_chunk, exit_code,
                 result, error, hist>>
  /\ UNCHANGED obs
  /\ UNCHANGED <<sess, gui>>

\* a stderr read that keeps the bytes with the stdout chunks
ForStderrRecv_Kept ==
  /\ pc = "for_stderr_recv"
  /\ in_stderr_buffer # <<>> \/ in_closed
  /\ stderr_read' = stderr_read + Len(PipeRead(in_stderr_buffer, nbytes))
  /\ stdout_chunks' = Append(stdout_chunks, PipeRead(in_stderr_buffer, nbytes))
  /\ in_stderr_buffer' = PipeRest(in_stderr_buffer, nbytes)
  /\ nbytes' = 0
  /\ got_chunk' = TRUE
  /\ pc' = "term_exit_status"
  /\ UNCHANGED <<remote, in_buffer, in_closed, eof_received, eof_sent, closed,
                 status_event, exit_status,
                 exit_code, result, error, stdout_written, stderr_written,
                 out_at_status, err_at_status, unread_at_status, begin_status,
                 begin_closed, loops, timed_out>>
  /\ err_read_iter' = Len(PipeRead(in_stderr_buffer, nbytes))
  /\ UNCHANGED <<calls, idle, err_at_wait>>
  /\ UNCHANGED <<sess, gui>>

\* stderr.channel.recv_stderr(n): the bytes are dropped; got_chunk = True
ForStderrRecv ==
  /\ pc = "for_stderr_recv"
  /\ in_stderr_buffer # <<>> \/ in_closed
  /\ stderr_read' = stderr_read + Len(PipeRead(in_stderr_buffer, nbytes))
  /\ in_stderr_buffer' = PipeRest(in_stderr_buffer, nbytes)
  /\ nbytes' = 0
  /\ got_chunk' = TRUE
  /\ pc' = "term_exit_status"
  /\ UNCHANGED <<remote, in_buffer, in_closed, eof_received, eof_sent, closed,
                 status_event, exit_status, stdout_chunks,
                 exit_code, result, error, stdout_written, stderr_written,
                 out_at_status, err_at_status, unread_at_status, begin_status,
                 begin_closed, loops, timed_out>>
  /\ err_read_iter' = Len(PipeRead(in_stderr_buffer, nbytes))
  /\ UNCHANGED <<calls, idle, err_at_wait>>
  /\ UNCHANGED <<sess, gui>>

\* a termination check that takes an iteration without data for the end
TermExitStatus_IdleEnds ==
  /\ pc = "term_exit_status"
  /\ pc' = IF ~got_chunk THEN "term_stderr_ready" ELSE "while_closed"
  /\ UNCHANGED <<remote, chan, locals, hist>>
  /\ idle' = IF got_chunk THEN 0 ELSE Min(idle + 1, 2)
  /\ err_at_wait' = 0 /\ err_read_iter' = 0
  /\ UNCHANGED calls
  /\ UNCHANGED <<sess, gui>>

\* if not got_chunk and stdout.channel.exit_status_ready() ...
TermExitStatus ==
  /\ pc = "term_exit_status"
  /\ pc' = IF ~got_chunk /\ ExitStatusReady
             THEN "term_stderr_ready" ELSE "while_closed"
  /\ UNCHANGED <<remote, chan, locals, hist>>
  /\ idle' = IF got_chunk THEN 0 ELSE Min(idle + 1, 2)
  /\ err_at_wait' = 0 /\ err_read_iter' = 0
  /\ UNCHANGED calls
  /\ UNCHANGED <<sess, gui>>

\* ... and not stderr.channel.recv_stderr_ready() ...
TermStderrReady ==
  /\ pc = "term_stderr_ready"
  /\ pc' = IF ~RecvStderrReady THEN "term_recv_ready" ELSE "while_closed"
  /\ UNCHANGED <<remote, chan, locals, hist>>
  /\ UNCHANGED obs
  /\ UNCHANGED <<sess, gui>>

\* the termination check without its last conjunct
TermRecvReady_Unchecked ==
  /\ pc = "term_recv_ready"
  /\ pc' = "shutdown_read"
  /\ UNCHANGED <<remote, chan, locals, hist>>
  /\ UNCHANGED obs
  /\ UNCHANGED <<sess, gui>>

\* ... and not stdout.channel.recv_ready():
TermRecvReady ==
  /\ pc = "term_recv_ready"
  /\ pc' = IF ~RecvReady THEN "shutdown_read" ELSE "while_closed"
  /\ UNCHANGED <<remote, chan, locals, hist>>
  /\ UNCHANGED obs
  /\ UNCHANGED <<sess, gui>>

\* stdout.channel.shutdown_read()
ShutdownRead ==
  /\ pc = "shutdown_read"
  /\ eof_received' = TRUE
  /\ pc' = "close"
  /\ UNCHANGED <<remote, in_buffer, in_stderr_buffer, in_closed, eof_sent,
                 closed, status_event, exit_status, locals, hist>>
  /\ calls' = calls \cup {"shutdown_read"}
  /\ UNCHANGED <<idle, err_at_wait, err_read_iter>>
  /\ UNCHANGED <<sess, gui>>

\* a break that leaves the loop without closing the channel
Close_BreakOnly ==
  /\ pc = "close"
  /\ pc' = "recv_exit_status"
  /\ UNCHANGED <<remote, chan, locals, hist, obs>>
  /\ UNCHANGED <<sess, gui>>

\* stdout.channel.close(); break
Close ==
  /\ pc = "close"
  /\ closed' = TRUE /\ in_closed' = TRUE /\ status_event' = TRUE
  /\ pc' = "recv_exit_status"
  /\ UNCHANGED <<remote, in_buffer, in_stderr_buffer, eof_received, eof_sent,
                 exit_status, locals, hist>>
  /\ calls' = calls \cup {"close"}
  /\ UNCHANGED <<idle, err_at_wait, err_read_iter>>
  /\ UNCHANGED <<sess, gui>>

\* stdout.close(); stderr.close(); exit_code = stdout.channel.recv_exit_status()
RecvExitStatus ==
  /\ pc = "recv_exit_status"
  /\ status_event
  /\ exit_code' = exit_status
  /\ pc' = "decode"
  /\ UNCHANGED <<remote, chan, nbytes, stdout_chunks, got_chunk, result,
                 error, hist>>
  /\ UNCHANGED obs
  /\ UNCHANGED <<sess, gui>>

\* stdout = "".join([chunk.decode("utf8") for chunk in stdout_chunks]); return
Decode ==
  /\ pc = "decode"
  /\ IF AllChunksValid(stdout_chunks)
       THEN /\ result' = <<[stdout |-> DecodeChunks(stdout_chunks),
                            exit_code |-> exit_code]>>
            /\ pc' = "done"
            /\ UNCHANGED error
       ELSE /\ error' = <<[type |-> "UnicodeDecodeError",
                           object |-> FirstBadChunk(stdout_chunks)]>>
            /\ pc' = "raised"
            /\ UNCHANGED result
  /\ UNCHANGED <<remote, chan, nbytes, stdout_chunks, got_chunk,
                 exit_code, hist>>
  /\ UNCHANGED obs
  /\ UNCHANGED <<sess, gui>>





Next ==
  \/ Deliver \/ ExitStatus \/ ServerEof \/ ServerClose
  \/ ExecCommand \/ StdinClose \/ DrainLen \/ DrainRecv
  \/ WhileClosed \/ WhileRecvReady \/ WhileStderrReady
  \/ SelectFails
  \/ Select
  \/ ForRecvReady \/ ForLen \/ ForRecv
  \/ ForStderrReady \/ ForStderrLen \/ ForStderrRecv
  \/ TermExitStatus \/ TermStderrReady \/ TermRecvReady
  \/ ShutdownRead \/ Close
  \/ RecvExitStatus \/ Decode

Spec == Init /\ [][Next]_vars

\* ------------------------------------------- the RemoteClient's methods
\* the value None a method returns
None == [none |-> TRUE, value |-> <<>>]

\* connect(): self.client = SSHClient(); self.ssh_config.lookup(...);
\* self.client.connect(**cfg); every exception is logged and raised again
Connect ==
  /\ sess_pc = "new"
  /\ IF "ssh_config" \notin Attrs(has_ssh_config)
       THEN /\ client' = "unconnected"
            /\ sess_error' = <<[type |-> "AttributeError", command |-> 0]>>
            /\ sess_pc' = "connect_raised"
            /\ UNCHANGED returned
       ELSE IF ~reachable
         THEN /\ client' = "unconnected"
              /\ sess_error' = <<[type |-> "Exception", command |-> 0]>>
              /\ sess_pc' = "connect_raised"
              /\ UNCHANGED returned
         ELSE /\ client' = "connected"
              /\ returned' = <<None>>
              /\ sess_pc' = "ready"
              /\ UNCHANGED sess_error
  /\ UNCHANGED <<has_ssh_config, reachable, commands, cmd_i, in_flight,
                 dispatched, printed>>
  /\ UNCHANGED <<exec, gui>>

\* execute_commands(commands) is called: for cmd in commands
ExecuteCommands ==
  /\ sess_pc = "ready"
  /\ cmd_i' = 1
  /\ returned' = <<>>
  /\ sess_pc' = "loop"
  /\ UNCHANGED <<has_ssh_config, reachable, client, commands, in_flight,
                 dispatched, printed, sess_error>>
  /\ UNCHANGED <<exec, gui>>

\* self.safe_exec_cmd(cmd) is called for the next command; unless
\* exec_command fails the command's channel is open from here
RunCall ==
  /\ sess_pc = "loop"
  /\ cmd_i <= Len(commands)
  /\ dispatched' = Append(dispatched, cmd_i)
  /\ in_flight' = IF commands[cmd_i].raises = "SSHException"
                    THEN in_flight ELSE in_flight \cup {cmd_i}
  /\ sess_pc' = "in_call"
  /\ UNCHANGED <<has_ssh_config, reachable, client, commands, cmd_i, printed,
                 returned, sess_error>>
  /\ UNCHANGED <<exec, gui>>

\* a variant that writes each text in front of the ones written before
RunReturn_Unordered ==
  /\ sess_pc = "in_call"
  /\ commands[cmd_i].raises = ""
  /\ in_flight' = in_flight \ {cmd_i}
  /\ printed' = <<commands[cmd_i].stdout>> \o printed
  /\ cmd_i' = cmd_i + 1
  /\ sess_pc' = "loop"
  /\ UNCHANGED <<has_ssh_config, reachable, client, commands, dispatched,
                 returned, sess_error>>
  /\ UNCHANGED <<exec, gui>>

\* a variant that ends the loop at the first command with a nonzero exit code
RunReturn_StopsOnExitCode ==
  /\ sess_pc = "in_call"
  /\ commands[cmd_i].raises = ""
  /\ in_flight' = in_flight \ {cmd_i}
  /\ printed' = Append(printed, commands[cmd_i].stdout)
  /\ cmd_i' = IF commands[cmd_i].exit_code = 0
               THEN cmd_i + 1 ELSE Len(commands) + 1
  /\ sess_pc' = "loop"
  /\ UNCHANGED <<has_ssh_config, reachable, client, commands, dispatched,
                 returned, sess_error>>
  /\ UNCHANGED <<exec, gui>>

\* stdout, exit_code = self.safe_exec_cmd(cmd) returns (its channel is
\* closed); print(stdout); the loop goes on to the next command
RunReturn ==
  /\ sess_pc = "in_call"
  /\ commands[cmd_i].raises = ""
  /\ in_flight' = in_flight \ {cmd_i}
  /\ printed' = Append(printed, commands[cmd_i].stdout)
  /\ cmd_i' = cmd_i + 1
  /\ sess_pc' = "loop"
  /\ UNCHANGED <<has_ssh_config, reachable, client, commands, dispatched,
                 returned, sess_error>>
  /\ UNCHANGED <<exec, gui>>

\* a variant that catches the exception of a command and goes on
RunRaise_Swallowed ==
  /\ sess_pc = "in_call"
  /\ commands[cmd_i].raises # ""
  /\ cmd_i' = cmd_i + 1
  /\ sess_pc' = "loop"
  /\ UNCHANGED <<has_ssh_config, reachable, client, commands, in_flight,
                 dispatched, printed, returned, sess_error>>
  /\ UNCHANGED <<exec, gui>>

\* self.safe_exec_cmd(cmd) raises: nothing in execute_commands catches the
\* exception, it leaves execute_commands from line 254
RunRaise ==
  /\ sess_pc = "in_call"
  /\ commands[cmd_i].raises # ""
  /\ sess_error' = <<[type |-> commands[cmd_i].raises, command |-> cmd_i]>>
  /\ sess_pc' = "run_raised"
  /\ UNCHANGED <<has_ssh_config, reachable, client, commands, cmd_i,
                 in_flight, dispatched, printed, returned>>
  /\ UNCHANGED <<exec, gui>>

\* the for loop is exhausted: execute_commands has no return statement
RunEnd ==
  /\ sess_pc = "loop"
  /\ cmd_i > Len(commands)
  /\ returned' = <<None>>
  /\ sess_pc' = "run_returned"
  /\ UNCHANGED <<has_ssh_config, reachable, client, commands, cmd_i,
                 in_flight, dispatched, printed, sess_error>>
  /\ UNCHANGED <<exec, gui>>

\* disconnect(): if self.connection: self.client.close();
\* if self.scp: self.scp.close().  Reading an attribute the object does not
\* have raises AttributeError
Disconnect ==
  /\ sess_pc \in {"ready", "run_returned", "run_raised"}
  /\ IF "connection" \in Attrs(has_ssh_config)
       THEN /\ client' = "closed"
            /\ returned' = <<None>>
            /\ sess_pc' = "disconnected"
            /\ UNCHANGED sess_error
       ELSE /\ sess_error' = <<[type |-> "AttributeError", command |-> 0]>>
            /\ sess_pc' = "disconnect_raised"
            /\ UNCHANGED <<client, returned>>
  /\ UNCHANGED <<has_ssh_config, reachable, commands, cmd_i, in_flight,
                 dispatched, printed>>
  /\ UNCHANGED <<exec, gui>>

NextSession ==
  \/ Connect
  \/ ExecuteCommands
  \/ RunCall
  \/ RunReturn
  \/ RunRaise
  \/ RunEnd
  \/ Disconnect

SpecSession == InitSession /\ [][NextSession]_vars

\* ------------------------------------------------ the annotation GUI
\* the rows of a ledger with (or without) a file name, in order
RECURSIVE RowsOf(_, _)
RowsOf(ledger, name) ==
  IF ledger = <<>> THEN <<>>
  ELSE IF Head(ledger).file_name = name
    THEN <<Head(ledger)>> \o RowsOf(Tail(ledger), name)
    ELSE RowsOf(Tail(ledger), name)

RECURSIVE RowsNotOf(_, _)
RowsNotOf(ledger, name) ==
  IF ledger = <<>> THEN <<>>
  ELSE IF Head(ledger).file_name # name
    THEN <<Head(ledger)>> \o RowsNotOf(Tail(ledger), name)
    ELSE RowsNotOf(Tail(ledger), name)

\* a check of the inputs that looks at the file name only
AnnotationGood_KeyOnly(name, note) == name # ""

\* is_annotation_good: no input is None or ""
AnnotationGood(name, note) == name # "" /\ note # ""

\* self.current_anno after the loop over its keys, which copies the inputs up
\* to and including the first empty one
AnnoAfterCheck(old, name, note) ==
  IF name = "" THEN [old EXCEPT !.file_name = ""]
  ELSE [file_name |-> name, note |-> note]

\* a ledger that gets the new row in front
Submitted_InFront(ledger, row, repl) ==
  <<row>> \o (IF repl THEN RowsNotOf(ledger, row.file_name) ELSE ledger)

\* the ledger after a good Submit: with 'Replace?' the rows of the file name
\* are dropped; the new row is appended
Submitted(ledger, row, repl) ==
  Append(IF repl THEN RowsNotOf(ledger, row.file_name) ELSE ledger, row)

\* load_annotation_entry(path) on the ledger: look up the rows of the video;
\* without rows, blank the entry (the inputs derived from the file name are
\* filled, is_watermarked and is_pristine stay empty); with rows, go on to
\* populate_anno_to_gui
LoadAnnotationEntry(ledger, path) ==
  /\ annos' = <<RowsOf(ledger, path)>>
  /\ IF RowsOf(ledger, path) = <<>>
       THEN /\ current_anno' = <<[file_name |-> "", note |-> ""]>>
            /\ gui_pc' = "idle"
       ELSE /\ gui_pc' = "populate"
            /\ UNCHANGED current_anno

\* event -ANNOTATION_FILE_LOC-: read the CSV file, then look up the selected
\* video
AnnotationFileLoc ==
  /\ gui_pc = "idle"
  /\ values_path' = video_path
  /\ annotation_file' = <<csv_file>>
  /\ IF video_path # ""
       THEN LoadAnnotationEntry(csv_file, video_path)
       ELSE UNCHANGED <<annos, current_anno, gui_pc>>
  /\ UNCHANGED <<csv_file, anno_idx, video_path, submitted, gui_error, video>>
  /\ UNCHANGED <<exec, sess>>

\* event -FILE_LIST-: a video is selected
FileList ==
  /\ gui_pc = "idle"
  /\ values_path' = video_path
  /\ \E f \in Files :
       /\ video_path' = f
       /\ IF annotation_file # <<>>
            THEN LoadAnnotationEntry(annotation_file[1], f)
            ELSE UNCHANGED <<annos, current_anno, gui_pc>>
  /\ UNCHANGED <<annotation_file, csv_file, anno_idx, submitted, gui_error,
                 video>>
  /\ UNCHANGED <<exec, sess>>

\* populate_anno_to_gui: self.annos.to_numpy()[self.anno_idx] raises
\* IndexError out of range; nothing in run() catches it
PopulateAnnoToGui ==
  /\ gui_pc = "populate"
  /\ IF anno_idx < Len(annos[1])
       THEN /\ current_anno' = <<annos[1][anno_idx + 1]>>
            /\ gui_pc' = "idle"
            /\ UNCHANGED gui_error
       ELSE /\ gui_pc' = "crashed"
            /\ gui_error' = "IndexError"
            /\ UNCHANGED current_anno
  /\ UNCHANGED <<annotation_file, csv_file, annos, anno_idx, video_path,
                 submitted, values_path, video>>
  /\ UNCHANGED <<exec, sess>>

\* event -ANNO_NEXT_BTN- with self.annos not None
AnnoNextBtn ==
  /\ gui_pc = "idle"
  /\ values_path' = video_path
  /\ annos # <<>>
  /\ Len(annos[1]) > 0
  /\ anno_idx' = (anno_idx + 1) % Len(annos[1])
  /\ gui_pc' = "populate"
  /\ UNCHANGED <<annotation_file, csv_file, annos, current_anno, video_path,
                 submitted, gui_error, video>>
  /\ UNCHANGED <<exec, sess>>

\* event -ANNO_SUBMIT_BTN- with self.current_anno not None; self.values holds
\* what the user left in the annotation inputs and in 'Replace?'
AnnoSubmitBtn ==
  /\ gui_pc = "idle"
  /\ values_path' = video_path
  /\ current_anno # <<>>
  /\ \E name \in Files \cup {""}, note \in Notes, repl \in BOOLEAN :
       /\ current_anno' = <<AnnoAfterCheck(current_anno[1], name, note)>>
       /\ IF AnnotationGood(name, note)
            THEN LET row == [file_name |-> name, note |-> note]
                     ledger == Submitted(annotation_file[1], row, repl)
                 IN /\ Len(ledger) <= MaxRows
                    /\ annotation_file' = <<ledger>>
                    /\ csv_file' = ledger
                    /\ submitted' =
                         [submitted EXCEPT ![name] =
                            <<[note |-> note, replaced |-> repl]>>]
            ELSE UNCHANGED <<annotation_file, csv_file, submitted>>
  /\ UNCHANGED <<annos, anno_idx, video_path, gui_pc, gui_error, video>>
  /\ UNCHANGED <<exec, sess>>

NextAnno ==
  \/ AnnotationFileLoc
  \/ FileList
  \/ PopulateAnnoToGui
  \/ AnnoNextBtn
  \/ AnnoSubmitBtn

SpecAnno == InitAnno /\ [][NextAnno]_vars

\* ---------------------------------------- the video buffer and its loads
\* event -LOAD_VIDEO_BTN-: threading.Thread(target=self.load_video_into_buffer,
\* daemon=True).start()
LoadVideoBtn ==
  /\ gui_pc = "idle"
  /\ ~load_disabled
  /\ values_path' = video_path
  /\ \E t \in 1..MaxLoads :
       /\ t_pc[t] = "none"
       /\ \A u \in 1..(t - 1) : t_pc[u] # "none"
       /\ t_pc' = [t_pc EXCEPT ![t] = "start"]
  /\ UNCHANGED <<anno, gui_pc, gui_error, video_cap, video_buffer,
                 video_buffer_idx, slider_disabled, load_disabled,
                 slider_range, t_vr, frame_idx, frame_shown, value_shown>>
  /\ UNCHANGED <<exec, sess>>

\* thread: self.window["-VIDEO_SLIDER-"].update(disabled=True);
\* self.window["-LOAD_VIDEO_BTN-"].update(disabled=True)
ThreadDisable(t) ==
  /\ t_pc[t] = "start"
  /\ slider_disabled' = TRUE
  /\ load_disabled' = TRUE
  /\ t_pc' = [t_pc EXCEPT ![t] = "capture"]
  /\ UNCHANGED <<anno, gui_pc, gui_error, values_path, video_cap,
                 video_buffer, video_buffer_idx, slider_range, t_vr,
                 frame_idx, frame_shown, value_shown>>
  /\ UNCHANGED <<exec, sess>>

\* thread: self.video_cap = cv2.VideoCapture(...); self.video_res = ...;
\* self.video_cap.release()
ThreadCapture(t) ==
  /\ t_pc[t] = "capture"
  /\ video_cap' = TRUE
  /\ t_pc' = [t_pc EXCEPT ![t] = "reader"]
  /\ UNCHANGED <<anno, gui_pc, gui_error, values_path, video_buffer,
                 video_buffer_idx, slider_disabled, load_disabled,
                 slider_range, t_vr, frame_idx, frame_shown, value_shown>>
  /\ UNCHANGED <<exec, sess>>

\* thread: vr = decord.VideoReader(self.values["-VIDEO_PATH-"], ...), which
\* raises for a path that is no video (the thread ends there)
ThreadReader(t) ==
  /\ t_pc[t] = "reader"
  /\ t_vr' = [t_vr EXCEPT ![t] = values_path]
  /\ t_pc' = [t_pc EXCEPT ![t] = IF values_path = "" THEN "raised" ELSE "idx"]
  /\ UNCHANGED <<anno, gui_pc, gui_error, values_path, video_cap,
                 video_buffer, video_buffer_idx, slider_disabled,
                 load_disabled, slider_range, frame_idx, frame_shown,
                 value_shown>>
  /\ UNCHANGED <<exec, sess>>

\* thread: self.video_buffer_idx = list(range(0, len(vr), SAMPLE_EVERY_N_FRAME))
ThreadBufferIdx(t) ==
  /\ t_pc[t] = "idx"
  /\ video_buffer_idx' = <<[load |-> t, n |-> Frames(t_vr[t])]>>
  /\ t_pc' = [t_pc EXCEPT ![t] = "buffer"]
  /\ UNCHANGED <<anno, gui_pc, gui_error, values_path, video_cap,
                 video_buffer, slider_disabled, load_disabled, slider_range,
                 t_vr, frame_idx, frame_shown, value_shown>>
  /\ UNCHANGED <<exec, sess>>

\* thread: self.video_buffer = vr.get_batch(self.video_buffer_idx).asnumpy()
ThreadBuffer(t) ==
  /\ t_pc[t] = "buffer"
  /\ video_buffer' = <<[load |-> t, n |-> Frames(t_vr[t])]>>
  /\ t_pc' = [t_pc EXCEPT ![t] = "enable_load"]
  /\ UNCHANGED <<anno, gui_pc, gui_error, values_path, video_cap,
                 video_buffer_idx, slider_disabled, load_disabled,
                 slider_range, t_vr, frame_idx, frame_shown, value_shown>>
  /\ UNCHANGED <<exec, sess>>

\* thread: self.window["-LOAD_VIDEO_BTN-"].update(disabled=False)
ThreadEnableLoad(t) ==
  /\ t_pc[t] = "enable_load"
  /\ load_disabled' = FALSE
  /\ t_pc' = [t_pc EXCEPT ![t] = "enable_slider"]
  /\ UNCHANGED <<anno, gui_pc, gui_error, values_path, video_cap,
                 video_buffer, video_buffer_idx, slider_disabled,
                 slider_range, t_vr, frame_idx, frame_shown, value_shown>>
  /\ UNCHANGED <<exec, sess>>

\* thread: self.window["-VIDEO_SLIDER-"].update(disabled=False,
\* range=(0, len(self.video_buffer) - 1), value=0)
ThreadEnableSlider(t) ==
  /\ t_pc[t] = "enable_slider"
  /\ slider_disabled' = FALSE
  /\ slider_range' = video_buffer[1].n
  /\ t_pc' = [t_pc EXCEPT ![t] = "done"]
  /\ UNCHANGED <<anno, gui_pc, gui_error, values_path, video_cap,
                 video_buffer, video_buffer_idx, load_disabled, t_vr,
                 frame_idx, frame_shown, value_shown>>
  /\ UNCHANGED <<exec, sess>>

\* event -VIDEO_SLIDER-: without a loaded video the event is skipped; else the
\* frame at the slider's position is taken from self.video_buffer
VideoSlider ==
  /\ gui_pc = "idle"
  /\ ~slider_disabled
  /\ values_path' = video_path
  /\ value_shown' = <<>>
  /\ IF ~video_cap \/ video_buffer = <<>>
       THEN /\ frame_shown' = <<>>
            /\ UNCHANGED <<frame_idx, gui_pc, gui_error>>
       ELSE \E i \in 0..(slider_range - 1) :
              /\ frame_idx' = i
              /\ IF i < video_buffer[1].n
                   THEN /\ frame_shown' = video_buffer
                        /\ gui_pc' = "slider_idx"
                        /\ UNCHANGED gui_error
                   ELSE /\ frame_shown' = <<>>
                        /\ gui_pc' = "crashed"
                        /\ gui_error' = "IndexError"
  /\ UNCHANGED <<anno, video_cap, video_buffer, video_buffer_idx,
                 slider_disabled, load_disabled, slider_range, t_pc, t_vr>>
  /\ UNCHANGED <<exec, sess>>

\* self.window["-SLIDER_VALUE-"].update(f"{self.video_buffer_idx[frame_idx]}")
SliderValue ==
  /\ gui_pc = "slider_idx"
  /\ IF frame_idx < video_buffer_idx[1].n
       THEN /\ value_shown' = video_buffer_idx
            /\ gui_pc' = "idle"
            /\ UNCHANGED gui_error
       ELSE /\ gui_pc' = "crashed"
            /\ gui_error' = "IndexError"
            /\ UNCHANGED value_shown
  /\ UNCHANGED <<anno, values_path, video_cap, video_buffer, video_buffer_idx,
                 slider_disabled, load_disabled, slider_range, t_pc, t_vr,
                 frame_idx, frame_shown>>
  /\ UNCHANGED <<exec, sess>>

NextVideo ==
  \/ FileList
  \/ LoadVideoBtn
  \/ \E t \in 1..MaxLoads :
       \/ ThreadDisable(t)
       \/ ThreadCapture(t)
       \/ ThreadReader(t)
       \/ ThreadBufferIdx(t)
       \/ ThreadBuffer(t)
       \/ ThreadEnableLoad(t)
       \/ ThreadEnableSlider(t)
  \/ VideoSlider
  \/ SliderValue

SpecVideo == InitVideo /\ [][NextVideo]_vars

\* ---------------------------------------------------------- properties
Accumulated == Flatten(stdout_chunks)

\* C1: the byte accumulation safe_exec_cmd returns is exactly the stdout bytes
\* the process wrote: none missing, none duplicated, none reordered.
C1_AccumulationIsWhatWasWritten ==
  pc \in {"decode", "done"} => Accumulated = stdout_written

\* C2: the termination branch is taken only in an iteration that obtained no
\* data and saw the exit status available, and never while bytes that were
\* already delivered when the exit status became available are still unread:
\* all of them have been read from the stdout and stderr buffers by then.
C2_TerminationOnlyAfterDrain ==
  pc = "shutdown_read" =>
    /\ ~got_chunk
    /\ ExitStatusReady
    /\ out_at_status >= 0 /\ Len(Accumulated) >= out_at_status
    /\ err_at_status >= 0 /\ stderr_read >= err_at_status

\* the exit status became available while bytes were buffered unread, and the
\* termination branch was taken later
C2_Witness == pc = "shutdown_read" /\ unread_at_status

\* C3: whenever safe_exec_cmd returns a result the channel is closed and both
\* of its buffers are empty.
C3_ReturnsInTerminalState ==
  pc = "done" => closed /\ in_buffer = <<>> /\ in_stderr_buffer = <<>>

\* C4: the call never deadlocks: as long as it has not returned or raised,
\* the client or the transport can take a step.
C4_NeverDeadlocks == pc \in {"done", "raised"} \/ ENABLED Next

C6_StderrInReturnedText ==
  (pc = "done" /\ stderr_read = Len(stderr_written)) =>
    \A i \in 1..Len(stderr_written) :
      \E j \in 1..Len(result[1].stdout) : result[1].stdout[j] = stderr_written[i]

\* C7: a call whose channel never got an exit status does not return a result:
\* no returned result carries the default exit code.
C7_NoDefaultExitCode == pc = "done" => result[1].exit_code # NoExitStatus

\* C8: the returned text is the decoding of the whole accumulation, and the
\* call fails to decode only when the whole accumulation is not valid UTF-8.
C8_DecodesWholeAccumulation ==
  /\ pc = "done" => result[1].stdout = Utf8Decode(Accumulated)
  /\ (pc = "raised" /\ error[1].type = "UnicodeDecodeError")
       => ~Utf8Valid(Accumulated)

\* C9: a decoding error carries the entire raw accumulation.
C9_ErrorCarriesAccumulation ==
  (pc = "raised" /\ error[1].type = "UnicodeDecodeError")
    => error[1].object = Accumulated

\* the channel is unusable when the call begins: the session cannot dispatch
\* the command, or the dispatched channel is already closed
UnusableAtBegin == ~session_active \/ begin_closed

\* C10 as stated: with the channel unusable when the call begins the call
\* fails and returns no result.
C10_UnusableChannelFails == UnusableAtBegin => pc # "done"

\* C10 amended: a session that cannot dispatch the command makes the call fail
\* with the library's error and no result; a dispatched channel that is
\* already closed is not treated as an error (only the wait and the decoding
\* can still fail).
C10_DeadSessionFailsClosedChannelReturns ==
  /\ ~session_active => pc \in {"exec_command", "raised"} /\ result = <<>>
  /\ (~session_active /\ pc = "raised") => error[1].type = "SSHException"
  /\ (begin_closed /\ pc = "raised")
       => error[1].type \in {"OSError", "UnicodeDecodeError"}

\* the call on a dead session has raised
C10_Witness == ~session_active /\ pc = "raised" /\ error # <<>>

\* the wait of some iteration has failed and the exception has left the call
WaitFailed == pc = "raised" /\ error[1].type = "OSError"

\* C11: when the wait of an iteration fails the call raises that error, returns
\* no result, and has performed neither shutdown_read() nor close() on the
\* channel.
C11_WaitFailureLeavesChannel ==
  WaitFailed => result = <<>> /\ calls = {}

\* the wait failed on a channel that is still open
C11_Witness == WaitFailed /\ ~closed /\ loops >= 1

\* the results of the commands, in the order of the list
ResultsInOrder ==
  [k \in 1..Len(commands) |->
     [stdout |-> commands[k].stdout, exit_code |-> commands[k].exit_code]]

\* C12 as stated: execute_commands returns the list of the commands' results,
\* in the order of the commands.
C12_ReturnsResultsInOrder ==
  sess_pc = "run_returned" =>
    /\ ~returned[1].none
    /\ returned[1].value = ResultsInOrder

\* C12 amended: execute_commands prints the stdout texts in the order of the
\* commands and returns None; a command is dispatched only after the calls for
\* all commands before it have returned, and at most one channel is in flight.
C12_PrintsInOrderOneInFlight ==
  /\ Len(printed) <= Len(commands)
  /\ \A k \in 1..Len(printed) : printed[k] = commands[k].stdout
  /\ \A k \in 1..Len(dispatched) : dispatched[k] = k
  /\ Len(dispatched) - Len(printed) \in {0, 1}
  /\ Cardinality(in_flight) <= 1
  /\ sess_pc = "in_call" => in_flight \subseteq {cmd_i}
  /\ sess_pc = "run_returned" =>
       /\ returned[1] = None
       /\ Len(printed) = Len(commands)
       /\ in_flight = {}

\* three commands with different texts have run and execute_commands returned
C12_Witness ==
  /\ sess_pc = "run_returned"
  /\ Len(commands) = 3
  /\ commands[1].stdout # commands[2].stdout
  /\ commands[2].stdout # commands[3].stdout
  /\ Len(printed) = 3

\* the calls of safe_exec_cmd that are over
CallsOver ==
  IF sess_pc = "in_call" THEN Len(dispatched) - 1 ELSE Len(dispatched)

\* C13: when safe_exec_cmd raises for the k-th command, execute_commands raises
\* that same error at once: the k-th command was called once, and no command
\* after it is ever dispatched.
C13_FailureSurfacesAtOnce ==
  /\ \A k \in 1..CallsOver :
       commands[dispatched[k]].raises # "" =>
         /\ k = Len(dispatched)
         /\ sess_pc \in {"run_raised", "disconnect_raised", "disconnected"}
  /\ sess_pc = "run_raised" =>
       /\ sess_error[1] = [type |-> commands[cmd_i].raises, command |-> cmd_i]
       /\ dispatched = [k \in 1..cmd_i |-> k]
       /\ returned = <<>>

\* the second of three commands failed and execute_commands raised
C13_Witness ==
  /\ sess_pc = "run_raised"
  /\ Len(commands) = 3
  /\ cmd_i = 2

\* C15: after a successful connect(), disconnect() returns normally and leaves
\* the client closed.
C15_DisconnectCloses ==
  sess_pc \in {"disconnected", "disconnect_raised"} =>
    /\ sess_pc = "disconnected"
    /\ client = "closed"

\* the read direction of the channel is shut: shutdown_read() or the server's
\* EOF set eof_received, or the buffers are closed (a read returns at once)
ReadShut == eof_received \/ in_closed

\* C16: whenever safe_exec_cmd returns a result, the write direction is
\* half-closed, the read direction is shut and the channel is closed, on the
\* break path and on the path through the while condition alike.
C16_ReturnsWithChannelShut ==
  pc = "done" => eof_sent /\ ReadShut /\ closed

\* the call returned through the while condition: it called neither
\* shutdown_read() nor close(), the server closed the channel
C16_Witness == pc = "done" /\ calls = {} /\ loops >= 1

\* the iteration is at its termination check after a wait that timed out: it
\* obtained no data although the buffers are not closed (a wait that returns
\* ready finds bytes to read unless the buffers are closed)
AfterTimedOutWait == pc = "term_exit_status" /\ ~got_chunk /\ ~in_closed

\* C17 as stated: an iteration leaves no stderr bytes buffered and unread, also
\* when its wait timed out.
C17_TimedOutIterationDrainsStderr ==
  AfterTimedOutWait => in_stderr_buffer = <<>>

\* C17 amended: the stderr bytes that are buffered when the iteration's wait
\* runs are read in that same iteration (so the wait does not time out while
\* stderr bytes are buffered); an iteration whose wait timed out reads nothing.
C17_BufferedAtWaitIsRead ==
  /\ pc = "term_exit_status" => err_read_iter >= err_at_wait
  /\ AfterTimedOutWait => err_at_wait = 0 /\ err_read_iter = 0

\* an iteration has read the stderr bytes its wait found buffered
C17_Witness ==
  pc = "term_exit_status" /\ err_at_wait > 0 /\ err_read_iter >= err_at_wait

\* the call is past the loop
PastLoop ==
  \/ pc \in {"shutdown_read", "close", "recv_exit_status", "decode", "done"}
  \/ pc = "raised" /\ error[1].type = "UnicodeDecodeError"

\* C18: a wait that times out never ends the call by itself: while the channel
\* is open and the exit status is not available the call stays in the loop,
\* however many iterations were idle; and the loop is left through its while
\* condition only with the channel closed and both buffers empty.
C18_TimeoutIsNoDeadline ==
  /\ PastLoop => ExitStatusReady
  /\ (PastLoop /\ pc \notin {"shutdown_read", "close"} /\ calls = {}) =>
       closed /\ in_buffer = <<>> /\ in_stderr_buffer = <<>>

\* two or more iterations in a row were idle, the channel is open without an
\* exit status, and the loop is at its next wait
C18_Witness ==
  pc = "select" /\ idle = 2 /\ timed_out /\ ~closed /\ ~status_event

\* C19: the loop is left through the termination check only after two or more
\* iterations in a row without data.
C19_TwoIdleCyclesBeforeExit == pc = "shutdown_read" => idle >= 2

\* C20: the initial drain never waits: the read of line 202 can return at once,
\* also with an empty stdout buffer on an open channel.
C20_InitialDrainDoesNotWait == pc = "drain_recv" => ENABLED DrainRecv

\* the call has read from the channel or waited on it
HasReadOrWaited ==
  \/ pc \in {"drain_recv", "select", "for_recv", "for_stderr_recv"}
  \/ stdout_chunks # <<>>
  \/ loops > 0
  \/ stderr_read > 0

\* C21: the write direction of the channel is half-closed before the first
\* read of stdout, the first wait and any read of stderr.
C21_WriteClosedBeforeReading == HasReadOrWaited => eof_sent

\* the call is at its first read, with the write direction half-closed
C21_Witness ==
  pc = "drain_recv" /\ stdout_chunks = <<>> /\ loops = 0 /\ eof_sent

C27_ExitCodeDoesNotStop ==
  /\ sess_pc \in {"loop", "in_call"} =>
       /\ cmd_i = Len(printed) + 1
       /\ \A k \in 1..Len(printed) : commands[k].raises = ""
  /\ sess_pc = "run_raised" => commands[cmd_i].raises # ""
  /\ sess_pc = "run_returned" =>
       /\ dispatched = [k \in 1..Len(commands) |-> k]
       /\ Len(printed) = Len(commands)

\* three commands have run although the first returned a nonzero exit code
C27_Witness ==
  /\ sess_pc = "run_returned"
  /\ Len(commands) = 3
  /\ commands[1].exit_code # 0
  /\ Len(dispatched) = 3

\* C23 as stated: for every file_name that was submitted, the ledger in memory
\* and the CSV file hold exactly one row, with the values of the last Submit.
C23_OneRowPerFileName ==
  \A f \in Files :
    submitted[f] # <<>> =>
      /\ annotation_file # <<>>
      /\ RowsOf(annotation_file[1], f) =
           <<[file_name |-> f, note |-> submitted[f][1].note]>>
      /\ RowsOf(csv_file, f) = RowsOf(annotation_file[1], f)

\* C23 amended: for every file_name that was submitted, the last of its rows
\* carries the values of the last Submit; it is the only row when that Submit
\* had 'Replace?' checked; the CSV file holds the ledger that is in memory.
C23_LastRowIsLastSubmit ==
  \A f \in Files :
    submitted[f] # <<>> =>
      /\ annotation_file # <<>>
      /\ csv_file = annotation_file[1]
      /\ LET rows == RowsOf(annotation_file[1], f)
         IN /\ rows # <<>>
            /\ rows[Len(rows)].note = submitted[f][1].note
            /\ submitted[f][1].replaced => Len(rows) = 1

\* a file name was submitted without 'Replace?' and has two rows with
\* different values
C23_Witness ==
  \E f \in Files :
    /\ submitted[f] # <<>> /\ ~submitted[f][1].replaced
    /\ annotation_file # <<>>
    /\ Len(RowsOf(annotation_file[1], f)) = 2
    /\ RowsOf(annotation_file[1], f)[1] # RowsOf(annotation_file[1], f)[2]

\* C24: whenever populate_anno_to_gui reads the entry at anno_idx, the index is
\* within the annotations of the selected video.
C24_AnnoIdxInRange ==
  gui_pc = "populate" => 0 <= anno_idx /\ anno_idx < Len(annos[1])

\* C25: a Submit that is rejected for an empty input leaves the ledger in
\* memory and the CSV file as they were, with 'Replace?' checked or not.
C25_RejectedSubmitLeavesLedger ==
  [][(/\ AnnoSubmitBtn
      /\ current_anno'[1].file_name = "" \/ current_anno'[1].note = "")
       => (annotation_file' = annotation_file /\ csv_file' = csv_file)]_vars

\* a Submit with a file name that has rows in the ledger was rejected for an
\* empty input
C25_Witness ==
  /\ current_anno # <<>>
  /\ current_anno[1].file_name # "" /\ current_anno[1].note = ""
  /\ annotation_file # <<>>
  /\ RowsOf(annotation_file[1], current_anno[1].file_name) # <<>>

\* C26: a slider event never takes the frame and the frame number from buffers
\* of different loads or of different lengths.
C26_SliderReadsOneLoad ==
  (value_shown # <<>> /\ frame_shown # <<>>) => frame_shown = value_shown

====
